---- MODULE Spec2Model ----
(***************************************************************************)
(* Model of the image pipeline of andrewrmoreland/meh: one request runs    *)
(* decode, imaging.Trim, imaging.RemoveBackground, size resolution,        *)
(* resampling and encoding.  Pixels are the 16-bit (R,G,B,A) tuples that   *)
(* color.Color.RGBA() returns; an image is its bounds and a pixel grid     *)
(* indexed by absolute coordinates.                                        *)
(***************************************************************************)
EXTENDS Integers, Sequences, FiniteSets, TLC

\* ---------------------------------------------------------------- bounds
MaxW == 3
MaxH == 3
MaxPixels == 9
MaxReq == 2

\* ------------------------------------------------------- program constants
Opaque == 65535

\* the greatest and the least int.  The build's int is 64 bits wide; the
\* model only compares these two values, so it stands them on the ends of
\* the integers TLC can hold
IntMax == 2147483647
IntMin == -IntMax - 1

\* the quality range of the browser entry and its replacement value
MaxQuality == 100
DefaultQuality == 90

\* ---------------------------------------------------------------- colours
White == <<65535, 65535, 65535, 65535>>
Red == <<65535, 0, 0, 65535>>
Transparent == <<0, 0, 0, 0>>
Semi == <<32896, 0, 0, 32896>>
Deep == <<65535, 65535, 65280, 65535>>

\* the decoded images of the model: a palette of two colours and the origin
\* of the bounds (a sub-image view has a non-zero origin)
Sources == {<<{White, Red}, <<0, 0>>>>, <<{White, Red}, <<1, 2>>>>,
            <<{White, Deep}, <<0, 0>>>>, <<{Transparent, Red}, <<1, 2>>>>,
            <<{Semi, Transparent}, <<0, 0>>>>}

\* ------------------------------------------------------------------ images
Rect(x0, y0, x1, y1) == [minX |-> x0, minY |-> y0, maxX |-> x1, maxY |-> y1]

Grid(b) == (b.minX .. b.maxX - 1) \X (b.minY .. b.maxY - 1)

Dx(b) == b.maxX - b.minX

Dy(b) == b.maxY - b.minY

NoImage == [bounds |-> Rect(0, 0, 0, 0), pix |-> << >>]

\* img.At(x, y): the zero colour outside the bounds
At(im, x, y) == IF <<x, y>> \in Grid(im.bounds) THEN im.pix[<<x, y>>] ELSE Transparent

\* storing a colour in an *image.RGBA keeps the high byte of each channel;
\* reading it back replicates that byte into 16 bits
Store8(v) == (v \div 256) * 257

ToRGBA(c) == <<Store8(c[1]), Store8(c[2]), Store8(c[3]), Store8(c[4])>>

\* mutant: the alpha channels are not compared
colorsEqualRGB(c1, c2) == c1[1] = c2[1] /\ c1[2] = c2[2] /\ c1[3] = c2[3]

colorsEqual(c1, c2) == c1[1] = c2[1] /\ c1[2] = c2[2] /\ c1[3] = c2[3] /\ c1[4] = c2[4]

Sizes == {d \in (1..MaxW) \X (1..MaxH) : d[1] * d[2] <= MaxPixels}

Box(o, d) == Rect(o[1], o[2], o[1] + d[1], o[2] + d[2])

Painted(b, p) == {[bounds |-> b, pix |-> f] : f \in [Grid(b) -> p]}

Decodable == UNION {Painted(Box(s[2], d), s[1]) : s \in Sources, d \in Sizes}

Plain == UNION {Painted(Box(<<0, 0>>, d), {White}) : d \in (1..MaxW) \X (1..MaxH)}

\* image values without pixels: one dimension or both are zero
Degenerate ==
    UNION {Painted(Box(o, d), {White}) :
             o \in {<<0, 0>>, <<1, 2>>},
             d \in {e \in (0..MaxW) \X (0..MaxH) : e[1] * e[2] = 0}}

\* the uploaded bytes: what image.Decode makes of them
Corrupt == [ok |-> FALSE, image |-> NoImage]

Upload(ims) == {[ok |-> TRUE, image |-> im] : im \in ims} \cup {Corrupt}

VARIABLES file, trim, transparentBg, width, height, format, qualityArg,
          pc, img, arg, quality,
          topLeft, hasTransparency, top, bottom, left, right,
          bgColor, isBackground, queue,
          origWidth, origHeight, newWidth, newHeight, dst, result

vars == <<file, trim, transparentBg, width, height, format, qualityArg,
          pc, img, arg, quality,
          topLeft, hasTransparency, top, bottom, left, right,
          bgColor, isBackground, queue,
          origWidth, origHeight, newWidth, newHeight, dst, result>>

request == <<file, trim, transparentBg, width, height, format, qualityArg>>

trimLocals == <<topLeft, hasTransparency, top, bottom, left, right>>

bgLocals == <<bgColor, isBackground, queue>>

sizeLocals == <<origWidth, origHeight, newWidth, newHeight, dst>>

\* the state of processImage before its first statement
Fresh ==
    /\ pc = "decode"
    /\ quality = qualityArg
    /\ img = NoImage
    /\ arg = NoImage
    /\ topLeft = Transparent
    /\ hasTransparency = FALSE
    /\ top = 0 /\ bottom = 0 /\ left = 0 /\ right = 0
    /\ bgColor = Transparent
    /\ isBackground = << >>
    /\ queue = << >>
    /\ origWidth = 0 /\ origHeight = 0 /\ newWidth = 0 /\ newHeight = 0
    /\ dst = Rect(0, 0, 0, 0)
    /\ result = "none"

\* one request: any upload of the image family, both flags, no requested size
Init ==
    /\ file \in Upload(Decodable)
    /\ trim \in BOOLEAN
    /\ transparentBg \in BOOLEAN
    /\ width = 0 /\ height = 0
    /\ format = "png"
    /\ qualityArg = DefaultQuality
    /\ Fresh

\* one request: a plain image of every size, every requested size and format
InitSize ==
    /\ file \in Upload(Plain)
    /\ trim \in BOOLEAN
    /\ transparentBg \in BOOLEAN
    /\ width \in 0..MaxReq /\ height \in 0..MaxReq
    /\ format \in {"png", "jpeg"}
    /\ qualityArg = DefaultQuality
    /\ Fresh

\* quality arguments on both sides of the two ends of the valid range
Qualities == {0 - 1, 0, 1, MaxQuality, MaxQuality + 1}

\* one request on any image value a caller can hold, pixels or not, with
\* any quality argument
InitAny ==
    /\ file \in Upload(Plain \cup Degenerate)
    /\ trim \in BOOLEAN
    /\ transparentBg \in BOOLEAN
    /\ width \in 0..MaxReq /\ height \in 0..MaxReq
    /\ format \in {"png", "jpeg"}
    /\ qualityArg \in Qualities
    /\ Fresh

\* ------------------------------------------------------------------ decode
\* mutant: only negative quality values are replaced
EffectiveQualityFromZero(q) == IF q < 0 \/ q > MaxQuality THEN DefaultQuality ELSE q

\* "if quality <= 0 || quality > 100 { quality = 90 }"
EffectiveQuality(q) == IF q <= 0 \/ q > MaxQuality THEN DefaultQuality ELSE q

\* mutant: the decode error is not checked
DecodeUnchecked ==
    /\ pc = "decode"
    /\ quality' = EffectiveQuality(quality)
    /\ pc' = "trim"
    /\ img' = file.image
    /\ result' = result
    /\ UNCHANGED <<request, arg, trimLocals, bgLocals, sizeLocals>>

\* the statements of processImage up to the decode error check
Decode ==
    /\ pc = "decode"
    /\ quality' = EffectiveQuality(quality)
    /\ IF ~file.ok
         THEN /\ pc' = "done"
              /\ result' = "error: failed to decode image"
              /\ img' = img
         ELSE /\ pc' = "trim"
              /\ img' = file.image
              /\ result' = result
    /\ UNCHANGED <<request, arg, trimLocals, bgLocals, sizeLocals>>

\* -------------------------------------------------------------------- Trim
\* mutant: in transparency mode every pixel that is not opaque is trimmed
shouldTrimNotOpaque(im, tl, ht, x, y) ==
    LET c == At(im, x, y)
    IN  IF ht THEN c[4] < Opaque ELSE colorsEqual(c, tl)

shouldTrim(im, tl, ht, x, y) ==
    LET c == At(im, x, y)
    IN  IF ht THEN c[4] = 0 ELSE colorsEqual(c, tl)

RowFound(im, tl, ht, y) ==
    \E x \in im.bounds.minX .. im.bounds.maxX - 1 : ~shouldTrim(im, tl, ht, x, y)

ColFound(im, tl, ht, x, t, b) ==
    \E y \in t .. b - 1 : ~shouldTrim(im, tl, ht, x, y)

\* mutant: a scan that finds no row leaves top at the bottom bound
RECURSIVE FindTopToBottom(_, _, _, _)
FindTopToBottom(im, tl, ht, y) ==
    IF y >= im.bounds.maxY THEN im.bounds.maxY
    ELSE IF RowFound(im, tl, ht, y) THEN y
    ELSE FindTopToBottom(im, tl, ht, y + 1)

RECURSIVE FindTop(_, _, _, _)
FindTop(im, tl, ht, y) ==
    IF y >= im.bounds.maxY THEN im.bounds.minY
    ELSE IF RowFound(im, tl, ht, y) THEN y
    ELSE FindTop(im, tl, ht, y + 1)

\* mutant: bottom is set to the row found, not to the row after it
RECURSIVE FindBottomShort(_, _, _, _, _)
FindBottomShort(im, tl, ht, t, y) ==
    IF y < t THEN im.bounds.maxY
    ELSE IF RowFound(im, tl, ht, y) THEN y
    ELSE FindBottomShort(im, tl, ht, t, y - 1)

RECURSIVE FindBottom(_, _, _, _, _)
FindBottom(im, tl, ht, t, y) ==
    IF y < t THEN im.bounds.maxY
    ELSE IF RowFound(im, tl, ht, y) THEN y + 1
    ELSE FindBottom(im, tl, ht, t, y - 1)

RECURSIVE FindLeft(_, _, _, _, _, _)
FindLeft(im, tl, ht, t, b, x) ==
    IF x >= im.bounds.maxX THEN im.bounds.minX
    ELSE IF ColFound(im, tl, ht, x, t, b) THEN x
    ELSE FindLeft(im, tl, ht, t, b, x + 1)

\* mutant: right is set to the column found, not to the column after it
RECURSIVE FindRightShort(_, _, _, _, _, _, _)
FindRightShort(im, tl, ht, t, b, l, x) ==
    IF x < l THEN im.bounds.maxX
    ELSE IF ColFound(im, tl, ht, x, t, b) THEN x
    ELSE FindRightShort(im, tl, ht, t, b, l, x - 1)

RECURSIVE FindRight(_, _, _, _, _, _, _)
FindRight(im, tl, ht, t, b, l, x) ==
    IF x < l THEN im.bounds.maxX
    ELSE IF ColFound(im, tl, ht, x, t, b) THEN x + 1
    ELSE FindRight(im, tl, ht, t, b, l, x - 1)

\* mutant: the copy reads from the origin instead of from (l, t)
CropNoShift(im, l, t, r, b) ==
    LET nb == Rect(0, 0, r - l, b - t)
    IN  [bounds |-> nb,
         pix |-> [p \in Grid(nb) |-> ToRGBA(At(im, p[1], p[2]))]]

\* image.NewRGBA(image.Rect(0, 0, r-l, b-t)) filled by draw.Copy from
\* [l, r) x [t, b) of im
Crop(im, l, t, r, b) ==
    LET nb == Rect(0, 0, r - l, b - t)
    IN  [bounds |-> nb,
         pix |-> [p \in Grid(nb) |-> ToRGBA(At(im, l + p[1], t + p[2]))]]

\* the four edge scans of Trim in their order, as one box
TrimBox(im) ==
    LET b == im.bounds
        tl == At(im, b.minX, b.minY)
        ht == tl[4] < Opaque
        t == FindTop(im, tl, ht, b.minY)
        bt == FindBottom(im, tl, ht, t, b.maxY - 1)
        l == FindLeft(im, tl, ht, t, bt, b.minX)
        r == FindRight(im, tl, ht, t, bt, l, b.maxX - 1)
    IN  Rect(l, t, r, bt)

Trim(im) ==
    LET bx == TrimBox(im)
    IN  IF /\ bx.minX = im.bounds.minX /\ bx.maxX = im.bounds.maxX
           /\ bx.minY = im.bounds.minY /\ bx.maxY = im.bounds.maxY
        THEN im
        ELSE Crop(im, bx.minX, bx.minY, bx.maxX, bx.maxY)

SkipTrim ==
    /\ pc = "trim"
    /\ ~trim
    /\ pc' = "bg"
    /\ UNCHANGED <<request, quality, img, arg, trimLocals, bgLocals, sizeLocals, result>>

\* mutant: transparency mode is selected only by a fully transparent
\* top-left pixel
TrimTopModeByZeroAlpha ==
    /\ pc = "trim"
    /\ trim
    /\ arg' = img
    /\ LET tl == At(img, img.bounds.minX, img.bounds.minY)
           ht == tl[4] = 0
       IN  /\ topLeft' = tl
           /\ hasTransparency' = ht
           /\ top' = FindTop(img, tl, ht, img.bounds.minY)
    /\ pc' = "trim_bottom"
    /\ UNCHANGED <<request, quality, img, bottom, left, right, bgLocals, sizeLocals, result>>

TrimTop ==
    /\ pc = "trim"
    /\ trim
    /\ arg' = img
    /\ LET tl == At(img, img.bounds.minX, img.bounds.minY)
           ht == tl[4] < Opaque
       IN  /\ topLeft' = tl
           /\ hasTransparency' = ht
           /\ top' = FindTop(img, tl, ht, img.bounds.minY)
    /\ pc' = "trim_bottom"
    /\ UNCHANGED <<request, quality, img, bottom, left, right, bgLocals, sizeLocals, result>>

TrimBottom ==
    /\ pc = "trim_bottom"
    /\ bottom' = FindBottom(arg, topLeft, hasTransparency, top, arg.bounds.maxY - 1)
    /\ pc' = "trim_left"
    /\ UNCHANGED <<request, quality, img, arg, topLeft, hasTransparency, top, left, right,
                   bgLocals, sizeLocals, result>>

TrimLeft ==
    /\ pc = "trim_left"
    /\ left' = FindLeft(arg, topLeft, hasTransparency, top, bottom, arg.bounds.minX)
    /\ pc' = "trim_right"
    /\ UNCHANGED <<request, quality, img, arg, topLeft, hasTransparency, top, bottom, right,
                   bgLocals, sizeLocals, result>>

TrimRight ==
    /\ pc = "trim_right"
    /\ right' = FindRight(arg, topLeft, hasTransparency, top, bottom, left, arg.bounds.maxX - 1)
    /\ pc' = "trim_return"
    /\ UNCHANGED <<request, quality, img, arg, topLeft, hasTransparency, top, bottom, left,
                   bgLocals, sizeLocals, result>>

\* mutant: the result of Trim is not assigned back to img
TrimReturnDropped ==
    /\ pc = "trim_return"
    /\ img' = img
    /\ pc' = "bg"
    /\ UNCHANGED <<request, quality, arg, trimLocals, bgLocals, sizeLocals, result>>

TrimReturn ==
    /\ pc = "trim_return"
    /\ img' = IF /\ left = arg.bounds.minX /\ right = arg.bounds.maxX
                 /\ top = arg.bounds.minY /\ bottom = arg.bounds.maxY
              THEN arg
              ELSE Crop(arg, left, top, right, bottom)
    /\ pc' = "bg"
    /\ UNCHANGED <<request, quality, arg, trimLocals, bgLocals, sizeLocals, result>>

\* -------------------------------------------------------- RemoveBackground
\* one pass of the loop over x: the top-edge test, then the bottom-edge test.
\* The third component of the result is FALSE when a write to isBackground
\* indexes outside the slices (a run-time panic, which ends the loop)
RECURSIVE SeedRows(_, _, _, _, _)
SeedRows(im, bg, x, q, isBg) ==
    LET b == im.bounds
        h == Dy(b)
        pt == <<x - b.minX, 0>>
        pb == <<x - b.minX, h - 1>>
        hitT == colorsEqual(At(im, x, b.minY), bg)
        hitB == colorsEqual(At(im, x, b.maxY - 1), bg)
        q1 == IF hitT THEN Append(q, pt) ELSE q
        m1 == IF hitT THEN [isBg EXCEPT ![pt] = TRUE] ELSE isBg
        q2 == IF hitB THEN Append(q1, pb) ELSE q1
        m2 == IF hitB THEN [m1 EXCEPT ![pb] = TRUE] ELSE m1
    IN  IF x >= b.maxX THEN <<q, isBg, TRUE>>
        ELSE IF hitT /\ pt \notin DOMAIN isBg THEN <<q1, isBg, FALSE>>
        ELSE IF hitB /\ pb \notin DOMAIN isBg THEN <<q2, m1, FALSE>>
        ELSE SeedRows(im, bg, x + 1, q2, m2)

\* one pass of the loop over y: the left-edge test, then the right-edge test
RECURSIVE SeedCols(_, _, _, _, _)
SeedCols(im, bg, y, q, isBg) ==
    LET b == im.bounds
        w == Dx(b)
        pl == <<0, y - b.minY>>
        pr == <<w - 1, y - b.minY>>
        hitL == colorsEqual(At(im, b.minX, y), bg)
        hitR == colorsEqual(At(im, b.maxX - 1, y), bg)
        q1 == IF hitL THEN Append(q, pl) ELSE q
        m1 == IF hitL THEN [isBg EXCEPT ![pl] = TRUE] ELSE isBg
        q2 == IF hitR THEN Append(q1, pr) ELSE q1
        m2 == IF hitR THEN [m1 EXCEPT ![pr] = TRUE] ELSE m1
    IN  IF y >= b.maxY THEN <<q, isBg, TRUE>>
        ELSE IF hitL /\ pl \notin DOMAIN isBg THEN <<q1, isBg, FALSE>>
        ELSE IF hitR /\ pr \notin DOMAIN isBg THEN <<q2, m1, FALSE>>
        ELSE SeedCols(im, bg, y + 1, q2, m2)

\* mutant: the fill forgets the neighbour to the left
dirsNoLeft == <<<<0, 1>>, <<0, -1>>, <<1, 0>>>>

dirs == <<<<0, 1>>, <<0, -1>>, <<1, 0>>, <<-1, 0>>>>

\* mutant: a neighbour is enqueued whether it is marked already or not
RECURSIVE ExploreRevisits(_, _, _, _, _, _)
ExploreRevisits(im, bg, p, i, q, isBg) ==
    LET b == im.bounds
        nx == p[1] + dirs[i][1]
        ny == p[2] + dirs[i][2]
        hit == /\ nx >= 0 /\ nx < Dx(b) /\ ny >= 0 /\ ny < Dy(b)
               /\ colorsEqual(At(im, nx + b.minX, ny + b.minY), bg)
    IN  IF i > Len(dirs) THEN <<q, isBg>>
        ELSE IF hit THEN ExploreRevisits(im, bg, p, i + 1, Append(q, <<nx, ny>>),
                                         [isBg EXCEPT ![<<nx, ny>>] = TRUE])
        ELSE ExploreRevisits(im, bg, p, i + 1, q, isBg)

\* the loop over dirs for the dequeued point p, from direction i on
RECURSIVE Explore(_, _, _, _, _, _)
Explore(im, bg, p, i, q, isBg) ==
    LET b == im.bounds
        nx == p[1] + dirs[i][1]
        ny == p[2] + dirs[i][2]
        hit == /\ nx >= 0 /\ nx < Dx(b) /\ ny >= 0 /\ ny < Dy(b)
               /\ ~isBg[<<nx, ny>>]
               /\ colorsEqual(At(im, nx + b.minX, ny + b.minY), bg)
    IN  IF i > Len(dirs) THEN <<q, isBg>>
        ELSE IF hit THEN Explore(im, bg, p, i + 1, Append(q, <<nx, ny>>),
                                 [isBg EXCEPT ![<<nx, ny>>] = TRUE])
        ELSE Explore(im, bg, p, i + 1, q, isBg)

\* mutant: every pixel of the background colour is cleared, connected or not
MaskedNaive(im, isBg) ==
    LET b == im.bounds
        bg == At(im, b.minX, b.minY)
    IN  [bounds |-> b,
         pix |-> [p \in Grid(b) |->
                    IF colorsEqual(At(im, p[1], p[2]), bg)
                    THEN ToRGBA(Transparent)
                    ELSE ToRGBA(At(im, p[1], p[2]))]]

\* mutant: the result is allocated at the origin instead of at the bounds
MaskedRebased(im, isBg) ==
    LET b == im.bounds
        nb == Rect(0, 0, Dx(b), Dy(b))
    IN  [bounds |-> nb,
         pix |-> [p \in Grid(nb) |->
                    IF isBg[p]
                    THEN ToRGBA(Transparent)
                    ELSE ToRGBA(At(im, p[1] + b.minX, p[2] + b.minY))]]

\* mutant: the kept pixel is read at its offset in the image instead of at
\* its coordinates
MaskedOffsetRead(im, isBg) ==
    LET b == im.bounds
    IN  [bounds |-> b,
         pix |-> [p \in Grid(b) |->
                    IF isBg[<<p[1] - b.minX, p[2] - b.minY>>]
                    THEN ToRGBA(Transparent)
                    ELSE ToRGBA(At(im, p[1] - b.minX, p[2] - b.minY))]]

\* mutant: the mask is read at the coordinates of the pixel instead of at
\* its offset in the image
MaskedAbsoluteIndex(im, isBg) ==
    LET b == im.bounds
    IN  [bounds |-> b,
         pix |-> [p \in Grid(b) |->
                    IF p \in DOMAIN isBg /\ isBg[p]
                    THEN ToRGBA(Transparent)
                    ELSE ToRGBA(At(im, p[1], p[2]))]]

\* image.NewRGBA(bounds) filled by result.Set
Masked(im, isBg) ==
    LET b == im.bounds
    IN  [bounds |-> b,
         pix |-> [p \in Grid(b) |->
                    IF isBg[<<p[1] - b.minX, p[2] - b.minY>>]
                    THEN ToRGBA(Transparent)
                    ELSE ToRGBA(At(im, p[1], p[2]))]]

SkipBackground ==
    /\ pc = "bg"
    /\ ~transparentBg
    /\ pc' = "size"
    /\ UNCHANGED <<request, quality, img, arg, trimLocals, bgLocals, sizeLocals, result>>

BgSeed ==
    /\ pc = "bg"
    /\ transparentBg
    /\ arg' = img
    /\ LET b == img.bounds
           bg == At(img, b.minX, b.minY)
           none == [p \in (0 .. Dx(b) - 1) \X (0 .. Dy(b) - 1) |-> FALSE]
           rows == SeedRows(img, bg, b.minX, << >>, none)
           cols == IF rows[3] THEN SeedCols(img, bg, b.minY, rows[1], rows[2]) ELSE rows
       IN  /\ bgColor' = bg
           /\ queue' = cols[1]
           /\ isBackground' = cols[2]
           /\ IF cols[3]
                THEN pc' = "bg_fill" /\ result' = result
                ELSE pc' = "panic" /\ result' = "panic: index out of range"
    /\ UNCHANGED <<request, quality, img, trimLocals, sizeLocals>>

BgStep ==
    /\ pc = "bg_fill"
    /\ Len(queue) > 0
    /\ LET r == Explore(arg, bgColor, Head(queue), 1, Tail(queue), isBackground)
       IN  /\ queue' = r[1]
           /\ isBackground' = r[2]
    /\ UNCHANGED <<request, quality, pc, img, arg, bgColor, trimLocals, sizeLocals, result>>

BgResult ==
    /\ pc = "bg_fill"
    /\ Len(queue) = 0
    /\ img' = Masked(arg, isBackground)
    /\ pc' = "size"
    /\ UNCHANGED <<request, quality, arg, trimLocals, bgLocals, sizeLocals, result>>

\* ---------------------------------------------------------- size resolution
\* mutant: the quotient is rounded to the nearest integer
ScaledRounded(a, b, c) == (2 * a * b + c) \div (2 * c)

\* int(float64(a) * float64(b) / float64(c)) for the small non-negative
\* a, b and positive c of the model: the quotient truncated toward zero
Scaled(a, b, c) == (a * b) \div c

ResolveW(ow, oh, w, h) ==
    IF w > 0 /\ h = 0 THEN w
    ELSE IF h > 0 /\ w = 0 THEN Scaled(ow, h, oh)
    ELSE IF w = 0 /\ h = 0 THEN ow
    ELSE w

\* mutant: with both dimensions requested the height still follows the
\* aspect ratio of the original
ResolveHKeepsRatio(ow, oh, w, h) ==
    IF w > 0 THEN Scaled(oh, w, ow)
    ELSE IF h > 0 /\ w = 0 THEN h
    ELSE IF w = 0 /\ h = 0 THEN oh
    ELSE h

ResolveH(ow, oh, w, h) ==
    IF w > 0 /\ h = 0 THEN Scaled(oh, w, ow)
    ELSE IF h > 0 /\ w = 0 THEN h
    ELSE IF w = 0 /\ h = 0 THEN oh
    ELSE h

\* int(f) for the +Inf or NaN that a floating-point division by zero
\* yields: the conversion succeeds with an implementation-dependent value
\* (the least int on amd64; the greatest int, or 0 for NaN, where the
\* conversion saturates, as on wasm and arm64)
Unrepresentable == {IntMin, 0, IntMax}

\* mutant: the original size is taken from the decoded image, before Trim
ResolveFromUpload ==
    /\ pc = "size"
    /\ origWidth' = Dx(file.image.bounds)
    /\ origHeight' = Dy(file.image.bounds)
    /\ newWidth' = ResolveW(Dx(file.image.bounds), Dy(file.image.bounds), width, height)
    /\ newHeight' = ResolveH(Dx(file.image.bounds), Dy(file.image.bounds), width, height)
    /\ pc' = "resample"
    /\ UNCHANGED <<request, quality, img, arg, trimLocals, bgLocals, dst, result>>

Resolve ==
    /\ pc = "size"
    /\ origWidth' = Dx(img.bounds)
    /\ origHeight' = Dy(img.bounds)
    /\ newWidth' \in IF height > 0 /\ width = 0 /\ Dy(img.bounds) = 0
                       THEN Unrepresentable
                       ELSE {ResolveW(Dx(img.bounds), Dy(img.bounds), width, height)}
    /\ newHeight' \in IF width > 0 /\ height = 0 /\ Dx(img.bounds) = 0
                        THEN Unrepresentable
                        ELSE {ResolveH(Dx(img.bounds), Dy(img.bounds), width, height)}
    /\ pc' = "resample"
    /\ UNCHANGED <<request, quality, img, arg, trimLocals, bgLocals, dst, result>>

\* the resampling kernel is a collaborator: only the bounds of dst are kept.
\* image.NewRGBA panics when the byte size of the rectangle overflows int
Resample ==
    /\ pc = "resample"
    /\ IF newWidth \in {IntMin, IntMax} \/ newHeight \in {IntMin, IntMax}
         THEN /\ pc' = "panic"
              /\ result' = "panic: huge or negative dimensions"
              /\ dst' = dst
         ELSE /\ pc' = "encode"
              /\ dst' = Rect(0, 0, newWidth, newHeight)
              /\ result' = result
    /\ UNCHANGED <<request, quality, img, arg, trimLocals, bgLocals,
                   origWidth, origHeight, newWidth, newHeight>>

\* png.Encoder.Encode rejects an image without pixels; jpeg.Encode does not
Encode ==
    /\ pc = "encode"
    /\ result' = IF format # "jpeg" /\ (Dx(dst) <= 0 \/ Dy(dst) <= 0)
                 THEN "error: failed to encode image"
                 ELSE "data"
    /\ pc' = "done"
    /\ UNCHANGED <<request, quality, img, arg, trimLocals, bgLocals, sizeLocals>>

\* ------------------------------------------- the HTTP endpoint's own copies
\* trimImage of the HTTP server, a function of its argument
trimImage(im) ==
    LET minX == im.bounds.minX
        minY == im.bounds.minY
        maxX == im.bounds.maxX
        maxY == im.bounds.maxY
        tl == At(im, minX, minY)
        transparency == tl[4] < 65535
        trimmed(x, y) ==
            LET c == At(im, x, y)
            IN  IF transparency THEN c[4] = 0
                ELSE c[1] = tl[1] /\ c[2] = tl[2] /\ c[3] = tl[3] /\ c[4] = tl[4]
        rowFound(y) == \E x \in minX .. maxX - 1 : ~trimmed(x, y)
        RECURSIVE topFrom(_)
        topFrom(y) ==
            IF y >= maxY THEN minY
            ELSE IF rowFound(y) THEN y
            ELSE topFrom(y + 1)
        t == topFrom(minY)
        RECURSIVE bottomFrom(_)
        bottomFrom(y) ==
            IF y < t THEN maxY
            ELSE IF rowFound(y) THEN y + 1
            ELSE bottomFrom(y - 1)
        bt == bottomFrom(maxY - 1)
        colFound(x) == \E y \in t .. bt - 1 : ~trimmed(x, y)
        RECURSIVE leftFrom(_)
        leftFrom(x) ==
            IF x >= maxX THEN minX
            ELSE IF colFound(x) THEN x
            ELSE leftFrom(x + 1)
        l == leftFrom(minX)
        RECURSIVE rightFrom(_)
        rightFrom(x) ==
            IF x < l THEN maxX
            ELSE IF colFound(x) THEN x + 1
            ELSE rightFrom(x - 1)
        r == rightFrom(maxX - 1)
        cropped == Rect(0, 0, r - l, bt - t)
    IN  IF l = minX /\ r = maxX /\ t = minY /\ bt = maxY
        THEN im
        ELSE [bounds |-> cropped,
              pix |-> [p \in Grid(cropped) |-> ToRGBA(At(im, l + p[1], t + p[2]))]]

\* makeBackgroundTransparent of the HTTP server, a function of its argument
\* (an image with pixels: the index checks of the seeding are left out)
makeBackgroundTransparent(im) ==
    LET b == im.bounds
        bg == At(im, b.minX, b.minY)
        w == Dx(b)
        h == Dy(b)
        same(c) == c[1] = bg[1] /\ c[2] = bg[2] /\ c[3] = bg[3] /\ c[4] = bg[4]
        none == [p \in (0 .. w - 1) \X (0 .. h - 1) |-> FALSE]
        mark(s, p) ==
            IF same(At(im, p[1] + b.minX, p[2] + b.minY))
            THEN [q |-> Append(s.q, p), m |-> [s.m EXCEPT ![p] = TRUE]]
            ELSE s
        RECURSIVE seedX(_, _)
        seedX(x, s) ==
            IF x >= b.maxX THEN s
            ELSE seedX(x + 1, mark(mark(s, <<x - b.minX, 0>>), <<x - b.minX, h - 1>>))
        RECURSIVE seedY(_, _)
        seedY(y, s) ==
            IF y >= b.maxY THEN s
            ELSE seedY(y + 1, mark(mark(s, <<0, y - b.minY>>), <<w - 1, y - b.minY>>))
        visit(s, p, d) ==
            LET nx == p[1] + d[1]
                ny == p[2] + d[2]
            IN  IF /\ nx >= 0 /\ nx < w /\ ny >= 0 /\ ny < h
                   /\ ~s.m[<<nx, ny>>]
                   /\ same(At(im, nx + b.minX, ny + b.minY))
                THEN [q |-> Append(s.q, <<nx, ny>>), m |-> [s.m EXCEPT ![<<nx, ny>>] = TRUE]]
                ELSE s
        RECURSIVE fill(_)
        fill(s) ==
            IF Len(s.q) = 0 THEN s.m
            ELSE LET p == Head(s.q)
                     s0 == [q |-> Tail(s.q), m |-> s.m]
                 IN  fill(visit(visit(visit(visit(s0, p, <<0, 1>>), p, <<0, -1>>),
                                      p, <<1, 0>>), p, <<-1, 0>>))
        background == fill(seedY(b.minY, seedX(b.minX, [q |-> << >>, m |-> none])))
    IN  [bounds |-> b,
         pix |-> [p \in Grid(b) |->
                    IF background[<<p[1] - b.minX, p[2] - b.minY>>]
                    THEN ToRGBA(Transparent)
                    ELSE ToRGBA(At(im, p[1], p[2]))]]

\* ------------------------------------------------- the fill in any order
\* the flood-fill loop run to its end in the code's order (first in, first
\* out): the final mask
RECURSIVE Fill(_, _, _, _)
Fill(im, bg, q, isBg) ==
    IF Len(q) = 0 THEN isBg
    ELSE LET r == Explore(im, bg, Head(q), 1, Tail(q), isBg)
         IN  Fill(im, bg, r[1], r[2])

\* imaging.RemoveBackground as a function of its argument, for an image
\* with pixels: seeding, the fill run to its end, the result image
RemoveBackground(im) ==
    LET b == im.bounds
        bg == At(im, b.minX, b.minY)
        none == [p \in (0 .. Dx(b) - 1) \X (0 .. Dy(b) - 1) |-> FALSE]
        rows == SeedRows(im, bg, b.minX, << >>, none)
        cols == SeedCols(im, bg, b.minY, rows[1], rows[2])
    IN  Masked(im, Fill(im, bg, cols[1], cols[2]))

\* the sequence q without its i-th entry
Without(q, i) == SubSeq(q, 1, i - 1) \o SubSeq(q, i + 1, Len(q))

\* mutant: taking the i-th entry also drops the entries queued before it
BgStepAnyDrops ==
    /\ pc = "bg_fill"
    /\ Len(queue) > 0
    /\ \E i \in 1 .. Len(queue) :
         LET r == Explore(arg, bgColor, queue[i], 1,
                          SubSeq(queue, i + 1, Len(queue)), isBackground)
         IN  /\ queue' = r[1]
             /\ isBackground' = r[2]
    /\ UNCHANGED <<request, quality, pc, img, arg, bgColor, trimLocals, sizeLocals, result>>

\* one pass of the flood-fill loop that takes any queued point next, not
\* only the first: the loop of a traversal in any order
BgStepAny ==
    /\ pc = "bg_fill"
    /\ Len(queue) > 0
    /\ \E i \in 1 .. Len(queue) :
         LET r == Explore(arg, bgColor, queue[i], 1, Without(queue, i), isBackground)
         IN  /\ queue' = r[1]
             /\ isBackground' = r[2]
    /\ UNCHANGED <<request, quality, pc, img, arg, bgColor, trimLocals, sizeLocals, result>>

Next ==
    \/ Decode
    \/ SkipTrim \/ TrimTop \/ TrimBottom \/ TrimLeft \/ TrimRight \/ TrimReturn
    \/ SkipBackground \/ BgSeed \/ BgStep \/ BgResult
    \/ Resolve \/ Resample \/ Encode

Spec == Init /\ [][Next]_vars

SpecSize == InitSize /\ [][Next]_vars

\* the two-colour images at a non-zero origin whose top-left pixel, the
\* reference of both algorithms, is white
TwoTone ==
    {im \in UNION {Painted(Box(<<1, 2>>, d), {White, Red}) : d \in Sizes} :
       im.pix[<<1, 2>>] = White}

InitOrder ==
    /\ file \in Upload(TwoTone)
    /\ trim \in BOOLEAN
    /\ transparentBg \in BOOLEAN
    /\ width = 0 /\ height = 0
    /\ format = "png"
    /\ qualityArg = DefaultQuality
    /\ Fresh

NextAnyOrder ==
    \/ Decode
    \/ SkipTrim \/ TrimTop \/ TrimBottom \/ TrimLeft \/ TrimRight \/ TrimReturn
    \/ SkipBackground \/ BgSeed \/ BgStepAny \/ BgResult
    \/ Resolve \/ Resample \/ Encode

\* the pipeline with the flood fill taking its queued points in any order
SpecOrder == InitOrder /\ [][NextAnyOrder]_vars

SpecAny == InitAny /\ [][Next]_vars

\* the pipeline is sequential code: a request that can take a step takes it
SpecLive == InitOrder /\ [][Next]_vars /\ WF_vars(Next)

\* ===================================================================== claims
\* Trim has returned: arg is its input, img its result, the locals are final
AfterTrim == pc = "bg" /\ trim

\* RemoveBackground has returned: arg is its input, img its result
AfterBg == pc = "size" /\ transparentBg

OnBorder(b, p) ==
    p[1] = b.minX \/ p[1] = b.maxX - 1 \/ p[2] = b.minY \/ p[2] = b.maxY - 1

Adjacent(p, q) ==
    \/ p[1] = q[1] /\ (p[2] = q[2] + 1 \/ q[2] = p[2] + 1)
    \/ p[2] = q[2] /\ (p[1] = q[1] + 1 \/ q[1] = p[1] + 1)

\* the pixels of region R joined to S by 4-connected paths inside R
RECURSIVE Closure(_, _)
Closure(S, R) ==
    LET N == {p \in R \ S : \E q \in S : Adjacent(p, q)}
    IN  IF N = {} THEN S ELSE Closure(S \cup N, R)

RefColoured(im) ==
    {p \in Grid(im.bounds) : im.pix[p] = im.pix[<<im.bounds.minX, im.bounds.minY>>]}

\* reference-coloured pixels that are border pixels or joined to one
EdgeConnected(im) ==
    Closure({p \in RefColoured(im) : OnBorder(im.bounds, p)}, RefColoured(im))

\* a colour as an 8-bit-per-channel image holds it
High8(c) == [k \in 1..4 |-> 257 * (c[k] \div 256)]

Interior(im) == {p \in Grid(im.bounds) : ~OnBorder(im.bounds, p)}

\* C1 (as amended): after RemoveBackground, every pixel that is not
\* edge-connected background holds the input pixel with each channel kept
\* to its high 8 bits (the input pixel itself when its channel values are
\* multiples of 257).
C1_OnlyEdgeConnectedChanged ==
    AfterBg => \A p \in Grid(arg.bounds) \ EdgeConnected(arg) :
                   At(img, p[1], p[2]) = High8(arg.pix[p])

\* C1 (as claimed): every pixel that is not edge-connected background is
\* copied to the output unchanged.
C1_CopiedUnchanged ==
    AfterBg => \A p \in Grid(arg.bounds) \ EdgeConnected(arg) :
                   At(img, p[1], p[2]) = arg.pix[p]

\* an enclosed reference-coloured interior pixel that kept colour and alpha
C1_Witness ==
    /\ AfterBg
    /\ \E p \in Interior(arg) \cap RefColoured(arg) :
          /\ p \notin EdgeConnected(arg)
          /\ img.pix[p] = arg.pix[p]
          /\ img.pix[p][4] = Opaque

\* C2: after RemoveBackground, every edge-connected reference-coloured
\* pixel is (0,0,0,0); an image of one colour becomes entirely transparent.
C2_EdgeConnectedRemoved ==
    AfterBg => \A p \in EdgeConnected(arg) : At(img, p[1], p[2]) = <<0, 0, 0, 0>>

\* an opaque interior pixel removed because a path joins it to the border
C2_Witness ==
    /\ AfterBg
    /\ \E p \in Interior(arg) \cap EdgeConnected(arg) :
          arg.pix[p][4] = Opaque /\ img.pix[p] = <<0, 0, 0, 0>>
    /\ \E p \in Grid(arg.bounds) : img.pix[p] # <<0, 0, 0, 0>>

\* C3: RemoveBackground returns an image with the bounds of its input.
C3_BoundsKept == AfterBg => img.bounds = arg.bounds

\* a sub-image view with non-zero origin went through RemoveBackground
C3_Witness ==
    /\ AfterBg
    /\ arg.bounds.minX > 0 /\ arg.bounds.minY > 0
    /\ Dx(arg.bounds) > 1 /\ Dy(arg.bounds) > 1
    /\ img # arg
\* the pixels of Trim's input that the call finds non-trimmable
NonTrim ==
    {p \in Grid(arg.bounds) : ~shouldTrim(arg, topLeft, hasTransparency, p[1], p[2])}

SetMin(S) == CHOOSE x \in S : \A y \in S : x <= y

SetMax(S) == CHOOSE x \in S : \A y \in S : x >= y

\* the minimal bounding box of a non-empty set of pixels, right/bottom exclusive
BBox(P) ==
    Rect(SetMin({p[1] : p \in P}), SetMin({p[2] : p \in P}),
         SetMax({p[1] : p \in P}) + 1, SetMax({p[2] : p \in P}) + 1)

KeptBox == Rect(left, top, right, bottom)

Cropped == KeptBox # arg.bounds

Uniform(im) == \A p, q \in Grid(im.bounds) : im.pix[p] = im.pix[q]

\* C4: when the input has a non-trimmable pixel, the box Trim keeps is the
\* minimal bounding box of all non-trimmable pixels, and the result has
\* that box's size.
C4_MinimalBox ==
    (AfterTrim /\ NonTrim # {}) =>
        /\ KeptBox = BBox(NonTrim)
        /\ Dx(img.bounds) = right - left
        /\ Dy(img.bounds) = bottom - top

\* one foreground pixel behind borders of different thickness gives 1x1
C4_Witness ==
    /\ AfterTrim
    /\ Cardinality(NonTrim) = 1
    /\ Dx(arg.bounds) = 3 /\ Dy(arg.bounds) = 3
    /\ left - arg.bounds.minX # arg.bounds.maxX - right
    /\ Dx(img.bounds) = 1 /\ Dy(img.bounds) = 1

\* the pixel of Trim's input that pixel p of its result comes from
Origin(p) == IF Cropped THEN <<left + p[1], top + p[2]>> ELSE p

\* a second call would class every pixel of the result as the first call
\* classed the pixel it comes from
SameClasses ==
    LET b == img.bounds
        tl == At(img, b.minX, b.minY)
        ht == tl[4] < Opaque
    IN  \A p \in Grid(b) :
            shouldTrim(img, tl, ht, p[1], p[2])
                <=> shouldTrim(arg, topLeft, hasTransparency, Origin(p)[1], Origin(p)[2])

\* C5 (as amended): Trim(Trim(img)) has the bounds of Trim(img) whenever
\* the second call classes every pixel of the first result as the first call
\* classed the input pixel it comes from.
C5_IdempotentSameClasses ==
    (AfterTrim /\ SameClasses) => Trim(img).bounds = img.bounds

\* C5 (as claimed): Trim(Trim(img)) has the bounds of Trim(img) for every
\* image.
C5_Idempotent == AfterTrim => Trim(img).bounds = img.bounds

\* a first call that cropped, and a result with trimmable pixels left in it
C5_Witness ==
    /\ AfterTrim
    /\ Cropped
    /\ SameClasses
    /\ Dx(img.bounds) > 1 /\ Dy(img.bounds) > 1
    /\ \E p \in Grid(img.bounds) :
          shouldTrim(arg, topLeft, hasTransparency, Origin(p)[1], Origin(p)[2])

\* C6: Trim returns an image of one colour as it is, with its bounds.
C6_UniformUnchanged ==
    (AfterTrim /\ Uniform(arg)) => (img = arg /\ KeptBox = arg.bounds)

\* a fully transparent image, every pixel of it trimmable, came back whole
C6_Witness ==
    /\ AfterTrim
    /\ Uniform(arg)
    /\ Dx(arg.bounds) > 1 /\ Dy(arg.bounds) > 1
    /\ hasTransparency
    /\ NonTrim = {}
    /\ img = arg

\* each of the four outer edges of Trim's input has a non-trimmable pixel
EdgesHaveContent ==
    LET b == arg.bounds
    IN  /\ \E p \in NonTrim : p[2] = b.minY
        /\ \E p \in NonTrim : p[2] = b.maxY - 1
        /\ \E p \in NonTrim : p[1] = b.minX
        /\ \E p \in NonTrim : p[1] = b.maxX - 1

\* C7: when every outer edge has a non-trimmable pixel, Trim returns its
\* input itself: same bounds, same pixels, not a copy.
C7_NoTrimNeeded == (AfterTrim /\ EdgesHaveContent) => img = arg

\* such an input with trimmable pixels in it, and with a colour that an
\* 8-bit copy would have changed
C7_Witness ==
    /\ AfterTrim
    /\ EdgesHaveContent
    /\ NonTrim # Grid(arg.bounds)
    /\ \E p \in Grid(arg.bounds) : High8(arg.pix[p]) # arg.pix[p]
    /\ img = arg

\* C8 (as amended): a cropping Trim returns an image at origin (0,0) of the
\* kept box's size whose pixel (i,j) is the input pixel (left+i, top+j) with
\* each channel kept to its high 8 bits.
C8_CropCopies ==
    (AfterTrim /\ Cropped) =>
        /\ img.bounds = Rect(0, 0, right - left, bottom - top)
        /\ \A p \in Grid(img.bounds) :
               img.pix[p] = High8(At(arg, left + p[1], top + p[2]))

\* C8 (as claimed): the pixel (i,j) of the cropped image equals the input
\* pixel (left+i, top+j).
C8_CropCopiesExactly ==
    (AfterTrim /\ Cropped) =>
        /\ img.bounds = Rect(0, 0, right - left, bottom - top)
        /\ \A p \in Grid(img.bounds) :
               img.pix[p] = At(arg, left + p[1], top + p[2])

\* a crop of a view with non-zero origin that keeps pixels of two colours
C8_Witness ==
    /\ AfterTrim
    /\ Cropped
    /\ arg.bounds.minX > 0 /\ arg.bounds.minY > 0
    /\ left > arg.bounds.minX /\ top > arg.bounds.minY
    /\ ~Uniform(img)

\* the non-trimmable pixels as the mode rule states them
ByModeRule(im) ==
    LET tl == im.pix[<<im.bounds.minX, im.bounds.minY>>]
    IN  IF tl[4] < 65535
        THEN {p \in Grid(im.bounds) : im.pix[p][4] # 0}
        ELSE {p \in Grid(im.bounds) : im.pix[p] # tl}

InTrim == pc \in {"trim_bottom", "trim_left", "trim_right", "trim_return"}

\* C9: the mode is fixed by the top-left pixel (alpha below 0xffff: trim
\* alpha 0; else trim what equals the top-left pixel) through all four
\* scans, and the kept box is the bounding box of what that rule keeps.
C9_ModeFromTopLeft ==
    /\ (InTrim \/ AfterTrim) =>
          /\ topLeft = arg.pix[<<arg.bounds.minX, arg.bounds.minY>>]
          /\ hasTransparency <=> (topLeft[4] < 65535)
    /\ (AfterTrim /\ ByModeRule(arg) # {}) => KeptBox = BBox(ByModeRule(arg))

\* a fully transparent border around opaque content, cropped to the content
C9_Witness ==
    /\ AfterTrim
    /\ Cropped
    /\ hasTransparency
    /\ \A p \in Grid(arg.bounds) :
          IF p \in Grid(KeptBox) THEN arg.pix[p][4] = 65535 ELSE arg.pix[p][4] = 0
    /\ Cardinality(Grid(KeptBox)) > 1
    /\ img.bounds = Rect(0, 0, right - left, bottom - top)

\* C10: after size resolution of an image with positive width and height
\* and requested sizes >= 0, the target width and height are both >= 1.
C10_TargetPositive ==
    (pc \in {"resample", "encode", "done"} /\ origWidth > 0 /\ origHeight > 0
        /\ width >= 0 /\ height >= 0)
    => (newWidth >= 1 /\ newHeight >= 1)

\* size resolution has run on an image with positive dimensions
Resolved == pc \in {"resample", "encode"} /\ origWidth > 0 /\ origHeight > 0

\* k is the quotient n / d truncated toward zero, for n >= 0 and d > 0
IsFloor(k, n, d) == k * d <= n /\ n < (k + 1) * d

\* C11: when exactly one requested dimension is positive, the target keeps
\* that dimension verbatim and the other one is the aspect-ratio quotient
\* truncated toward zero: floor(origHeight * reqWidth / origWidth) for a
\* missing height, floor(origWidth * reqHeight / origHeight) for a missing
\* width.
C11_OneGivenTruncates ==
    /\ (Resolved /\ width > 0 /\ height = 0)
        => (newWidth = width /\ IsFloor(newHeight, origHeight * width, origWidth))
    /\ (Resolved /\ height > 0 /\ width = 0)
        => (newHeight = height /\ IsFloor(newWidth, origWidth * height, origHeight))

\* a missing height whose exact quotient has a fractional part of at least
\* one half, so that truncation and rounding differ
C11_Witness ==
    /\ Resolved /\ width > 0 /\ height = 0
    /\ newHeight >= 1
    /\ 2 * (origHeight * width - newHeight * origWidth) >= origWidth

\* C12: when both requested dimensions are 0, the target size is the bounds
\* size of the image that reaches the resize stage, that is the image after
\* Trim and RemoveBackground when they were requested.
C12_BothZeroKeepsSize ==
    (pc \in {"resample", "encode"} /\ width = 0 /\ height = 0)
        => (newWidth = Dx(img.bounds) /\ newHeight = Dy(img.bounds))

\* Trim has cropped the decoded image, and the target is the cropped size
C12_Witness ==
    /\ pc = "resample" /\ trim /\ width = 0 /\ height = 0
    /\ Dx(img.bounds) < Dx(file.image.bounds)
    /\ Dy(img.bounds) < Dy(file.image.bounds)
    /\ newWidth = Dx(img.bounds)

\* C13: when both requested dimensions are positive, the target size is
\* exactly (reqWidth, reqHeight), whatever the aspect ratio of the original.
C13_BothGivenExact ==
    (Resolved /\ width > 0 /\ height > 0)
        => (newWidth = width /\ newHeight = height)

\* both dimensions requested with an aspect ratio other than the original's
C13_Witness ==
    /\ Resolved /\ width > 0 /\ height > 0
    /\ width * origHeight # height * origWidth
    /\ newWidth = width /\ newHeight = height

\* the pipeline stage a position belongs to
Stage(p) ==
    CASE p = "decode" -> 0
      [] p \in {"trim", "trim_bottom", "trim_left", "trim_right", "trim_return"} -> 1
      [] p \in {"bg", "bg_fill"} -> 2
      [] p = "size" -> 3
      [] p = "resample" -> 4
      [] p = "encode" -> 5
      [] OTHER -> 6

\* what the Trim stage must hand on: Trim's result if the flag is set
TrimStageOutput == IF trim THEN Trim(file.image) ELSE file.image

\* C14: the stages run in the order decode, Trim (exactly if the trim flag
\* is set), RemoveBackground (exactly if its flag is set, on the output of
\* the Trim stage), size resolution on the bounds of the resulting image,
\* resample, encode: no step goes back to an earlier stage or jumps over
\* one, RemoveBackground is never given anything but the Trim stage's
\* output, and sizes are never resolved on anything but the image both
\* stages produced.
C14_StageOrder ==
    [][/\ Stage(pc') >= Stage(pc)
       /\ (Stage(pc') <= Stage(pc) + 1 \/ (pc = "decode" /\ ~file.ok))
       /\ (pc = "trim" /\ pc' # "trim") => (trim <=> pc' = "trim_bottom")
       /\ (pc = "bg" /\ pc' # "bg") => (transparentBg <=> pc' = "bg_fill")
       /\ (pc = "bg" /\ pc' # "bg") => img = TrimStageOutput
       /\ (pc = "bg" /\ pc' = "bg_fill") => arg' = TrimStageOutput
       /\ (pc = "size" /\ pc' # "size") =>
            /\ pc' = "resample"
            /\ origWidth' = Dx(img.bounds) /\ origHeight' = Dy(img.bounds)
            /\ IF transparentBg
                 THEN arg = TrimStageOutput /\ img = Masked(arg, isBackground)
                 ELSE img = TrimStageOutput
       /\ (pc = "resample" /\ pc' # "resample") =>
            (pc' = "encode" /\ dst' = Rect(0, 0, newWidth, newHeight))
      ]_vars

\* a request with both flags set has been through every stage: Trim cropped
\* the upload, RemoveBackground cleared a pixel of the cropped image, and
\* the result was resampled at the cropped size
C14_Witness ==
    /\ pc = "encode" /\ trim /\ transparentBg
    /\ Dx(arg.bounds) < Dx(file.image.bounds)
    /\ \E p \in DOMAIN isBackground : isBackground[p]
    /\ dst = Rect(0, 0, Dx(img.bounds), Dy(img.bounds))

\* C15: when the input cannot be decoded the request ends with the decode
\* error as its result, and none of Trim, RemoveBackground, size resolution,
\* resampling and encoding executes: the request goes from decoding straight
\* to its end and no local of any later stage is ever written.
C15_DecodeFailureStops ==
    ~file.ok =>
        /\ pc \in {"decode", "done"}
        /\ pc = "done" => result = "error: failed to decode image"
        /\ pc = "decode" => result = "none"
        /\ img = NoImage /\ arg = NoImage
        /\ top = 0 /\ bottom = 0 /\ left = 0 /\ right = 0
        /\ queue = << >> /\ isBackground = << >>
        /\ origWidth = 0 /\ origHeight = 0 /\ newWidth = 0 /\ newHeight = 0
        /\ dst = Rect(0, 0, 0, 0)

\* an undecodable upload with both flags set has been answered
C15_Witness ==
    /\ ~file.ok /\ trim /\ transparentBg
    /\ pc = "done" /\ result = "error: failed to decode image"

\* a rectangle whose minimum does not exceed its maximum on either axis
ValidBounds(b) == b.minX <= b.maxX /\ b.minY <= b.maxY

\* C16: Trim and RemoveBackground have no failure mode: for every image of
\* width >= 0 and height >= 0, images without pixels and images with a
\* non-zero origin included, each completes without a run-time failure and
\* returns an image with valid bounds.
C16_NoFailureMode ==
    /\ result # "panic: index out of range"
    /\ (AfterTrim \/ AfterBg) => ValidBounds(img.bounds)

\* size resolution has computed a target size by dividing by an original
\* dimension of zero
DividedByZero ==
    /\ pc = "resample"
    /\ \/ width > 0 /\ height = 0 /\ origWidth = 0
       \/ height > 0 /\ width = 0 /\ origHeight = 0

C18_QualityInRange ==
    pc # "decode" =>
        /\ quality \in 1..100
        /\ qualityArg \in 1..100 => quality = qualityArg
        /\ qualityArg \notin 1..100 => quality = 90

\* a JPEG was encoded for a request whose quality argument was 0
C18_Witness ==
    /\ pc = "done" /\ result = "data" /\ format = "jpeg"
    /\ qualityArg = 0 /\ quality = 90

\* the colour c with channel k alone changed
OneOff(c, k) == [c EXCEPT ![k] = (c[k] + 1) % 65536]

\* the colours the comparisons of the last call saw
Compared == {topLeft, bgColor} \cup {arg.pix[p] : p \in DOMAIN arg.pix}

\* C19: colorsEqual(c1, c2) is true exactly when the two colours are the
\* same (R, G, B, A) value, all four channels pairwise equal: it is
\* reflexive, symmetric and transitive, and two colours that differ in a
\* single channel compare unequal.
C19_ChannelwiseEquality ==
    (AfterTrim \/ AfterBg) =>
        LET near == Compared \cup {OneOff(c, k) : c \in Compared, k \in 1..4}
        IN  /\ \A c1, c2 \in near : colorsEqual(c1, c2) <=> c1 = c2
            /\ \A c \in near : colorsEqual(c, c)
            /\ \A c1, c2 \in near : colorsEqual(c1, c2) => colorsEqual(c2, c1)
            /\ \A c1, c2, c3 \in Compared \cup {OneOff(topLeft, k) : k \in 1..4} :
                 (colorsEqual(c1, c2) /\ colorsEqual(c2, c3)) => colorsEqual(c1, c3)
            /\ \A c \in Compared : \A k \in 1..4 : ~colorsEqual(c, OneOff(c, k))

\* Trim in colour mode met a pixel that differs from the top-left colour in
\* one channel only, kept it, and cropped the rest
C19_Witness ==
    /\ AfterTrim /\ ~hasTransparency /\ img # arg
    /\ \E p \in DOMAIN arg.pix :
         /\ Cardinality({k \in 1..4 : arg.pix[p][k] # topLeft[k]}) = 1
         /\ ~colorsEqual(arg.pix[p], topLeft)

\* C20: the HTTP endpoint and the browser entry run the same core: on every
\* image the endpoint's trimImage returns what imaging.Trim returns, and its
\* makeBackgroundTransparent returns what imaging.RemoveBackground returns.
C20_CopiesAgree ==
    /\ AfterTrim => trimImage(arg) = img
    /\ AfterBg => makeBackgroundTransparent(arg) = img

\* RemoveBackground has cleared a pixel of an image that Trim had cropped,
\* and the endpoint's copies give the same two results
C20_Witness ==
    /\ AfterBg /\ trim
    /\ Dx(arg.bounds) < Dx(file.image.bounds)
    /\ \E p \in DOMAIN isBackground : isBackground[p]
    /\ \E p \in DOMAIN isBackground : ~isBackground[p]
    /\ trimImage(file.image) = arg
    /\ makeBackgroundTransparent(arg) = img

\* C21: in every Trim call the computed bounds satisfy
\* minX <= left <= right <= maxX and minY <= top <= bottom <= maxY; for an
\* input with positive width and height they satisfy left < right and
\* top < bottom, so Trim never returns an empty image; and they equal the
\* full original bounds when no edge can be trimmed.
C21_BoundsOrdered ==
    AfterTrim =>
        LET b == arg.bounds
        IN  /\ b.minX <= left /\ left <= right /\ right <= b.maxX
            /\ b.minY <= top /\ top <= bottom /\ bottom <= b.maxY
            /\ (Dx(b) > 0 /\ Dy(b) > 0) =>
                 /\ left < right /\ top < bottom
                 /\ Dx(img.bounds) > 0 /\ Dy(img.bounds) > 0
            /\ EdgesHaveContent => KeptBox = b

\* Trim cropped an image on all four sides down to a single pixel
C21_Witness ==
    /\ AfterTrim /\ Cropped
    /\ arg.bounds.minX < left /\ right = left + 1 /\ right < arg.bounds.maxX
    /\ arg.bounds.minY < top /\ bottom = top + 1 /\ bottom < arg.bounds.maxY

\* the mask the code's first-in-first-out order ends with on Trim's output
FifoMask ==
    LET b == arg.bounds
        bg == At(arg, b.minX, b.minY)
        none == [p \in (0 .. Dx(b) - 1) \X (0 .. Dy(b) - 1) |-> FALSE]
        rows == SeedRows(arg, bg, b.minX, << >>, none)
        cols == SeedCols(arg, bg, b.minY, rows[1], rows[2])
    IN  Fill(arg, bg, cols[1], cols[2])

\* C22: the final background mask of RemoveBackground does not depend on
\* the order in which queued pixels are processed: whichever queued pixel
\* is taken next at each step, the fill ends with the mask that the
\* first-in-first-out order ends with.
C22_OrderIndependent ==
    (pc = "bg_fill" /\ queue = << >>) => isBackground = FifoMask

\* a fill that took every other queued point, a pixel off the border among
\* them, before the two points that were seeded first
C22_Witness ==
    /\ pc = "bg_fill"
    /\ Dy(arg.bounds) > 1
    /\ queue = << <<0, 0>>, <<0, Dy(arg.bounds) - 1>> >>
    /\ \E p \in DOMAIN isBackground :
         /\ isBackground[p]
         /\ p[1] > 0 /\ p[1] < Dx(arg.bounds) - 1
         /\ p[2] > 0 /\ p[2] < Dy(arg.bounds) - 1

\* the points of the mask that are marked and not on the border of the image
MarkedInside ==
    {p \in DOMAIN isBackground :
       /\ isBackground[p]
       /\ p[1] > 0 /\ p[1] < Dx(arg.bounds) - 1
       /\ p[2] > 0 /\ p[2] < Dy(arg.bounds) - 1}

\* C23 (as amended): during a RemoveBackground call the work queue never
\* holds more than the 2 x (width + height) entries that seeding can append
\* plus one entry per pixel off the border that the fill has marked, hence
\* never more than width x height + 2 x (width + height) entries.
C23_QueueBounded ==
    pc = "bg_fill" =>
        LET w == Dx(arg.bounds)
            h == Dy(arg.bounds)
        IN  /\ Len(queue) <= 2 * (w + h) + Cardinality(MarkedInside)
            /\ Len(queue) <= w * h + 2 * (w + h)

\* C23: during a RemoveBackground call, the seeding phase included, the
\* work queue never holds more entries than the image has pixels.
C23_QueueWithinPixels ==
    pc = "bg_fill" => Len(queue) <= Dx(arg.bounds) * Dy(arg.bounds)

\* seeding has queued every border pixel of a uniform image, the corners
\* twice: more entries than pixels
C23_Witness ==
    /\ pc = "bg_fill"
    /\ Len(queue) = 2 * (Dx(arg.bounds) + Dy(arg.bounds))
    /\ Len(queue) > Dx(arg.bounds) * Dy(arg.bounds)
    /\ \A p \in DOMAIN isBackground :
         isBackground[p] <=> (p \notin MarkedInside /\ OnBorder(arg.bounds, <<p[1] + arg.bounds.minX, p[2] + arg.bounds.minY>>))

\* C24 (as amended): when every pixel of the image is trimmable, Trim's
\* top-edge scan ends with top at the original top bound, and the other
\* scans leave bottom, left and right at the original bounds too, so the
\* box is the whole image and Trim returns its input.
C24_AllTrimmableKeepsBounds ==
    /\ (InTrim /\ NonTrim = {}) => top = arg.bounds.minY
    /\ (AfterTrim /\ NonTrim = {}) =>
          /\ top = arg.bounds.minY /\ bottom = arg.bounds.maxY
          /\ left = arg.bounds.minX /\ right = arg.bounds.maxX
          /\ img = arg

\* C24: when every pixel of the image is trimmable, Trim's top-edge scan
\* ends with top equal to the original bottom bound, and bottom equals that
\* same value.
C24_AllTrimmableTopAtBottom ==
    (AfterTrim /\ NonTrim = {}) =>
        (top = arg.bounds.maxY /\ bottom = arg.bounds.maxY)

\* Trim has returned on an image of several rows and columns in which
\* every pixel is trimmable
C24_Witness ==
    /\ AfterTrim /\ NonTrim = {}
    /\ Dx(arg.bounds) > 1 /\ Dy(arg.bounds) > 1
    /\ top = arg.bounds.minY /\ bottom = arg.bounds.maxY

\* C25: RemoveBackground is idempotent: for every image with pixels,
\* applying it to its own result gives that result again, pixel for pixel
\* and in bounds; background that is transparent stays transparent and
\* opaque content stays opaque.
C25_RemoveBackgroundIdempotent ==
    AfterBg =>
        LET again == RemoveBackground(img)
        IN  /\ RemoveBackground(arg) = img
            /\ again.bounds = img.bounds
            /\ \A p \in Grid(img.bounds) : again.pix[p] = img.pix[p]

\* the first call cleared a background that was not transparent and kept
\* opaque content next to it; the second call gives the same image
C25_Witness ==
    /\ AfterBg
    /\ \E p \in Grid(arg.bounds) : arg.pix[p][4] # 0 /\ img.pix[p][4] = 0
    /\ \E p \in Grid(arg.bounds) : img.pix[p][4] = 65535
    /\ RemoveBackground(img) = img

\* C26: for every image with positive width and height, the top-left pixel
\* of RemoveBackground's output is fully transparent, (0, 0, 0, 0).
C26_TopLeftTransparent ==
    (AfterBg /\ Dx(arg.bounds) > 0 /\ Dy(arg.bounds) > 0) =>
        /\ isBackground[<<0, 0>>]
        /\ At(img, img.bounds.minX, img.bounds.minY) = <<0, 0, 0, 0>>

\* the top-left pixel of an image with a non-zero origin was opaque and
\* has been cleared, while another pixel was kept
C26_Witness ==
    /\ AfterBg
    /\ arg.bounds.minX > 0
    /\ At(arg, arg.bounds.minX, arg.bounds.minY)[4] = 65535
    /\ At(img, img.bounds.minX, img.bounds.minY) = <<0, 0, 0, 0>>
    /\ \E p \in Grid(img.bounds) : img.pix[p][4] # 0

\* the points of the mask that are not marked
Unmarked(m) == {p \in DOMAIN m : ~m[p]}

\* C27: the flood-fill loop of RemoveBackground terminates on every image.
\* In each pass of the loop no marked pixel is unmarked, the entries
\* appended to the queue are exactly the pixels that the pass turns from
\* unmarked to marked, each once, so that twice the number of unmarked
\* pixels plus the queue length decreases; and a fill that has started
\* reaches an empty queue.
C27_FillTerminates ==
    /\ [][(pc = "bg_fill" /\ pc' = "bg_fill") =>
            LET added == SubSeq(queue', Len(queue), Len(queue'))
                turned == Unmarked(isBackground) \ Unmarked(isBackground')
            IN  /\ Unmarked(isBackground') \subseteq Unmarked(isBackground)
                /\ SubSeq(queue', 1, Len(queue) - 1) = Tail(queue)
                /\ {added[i] : i \in 1 .. Len(added)} = turned
                /\ Len(added) = Cardinality(turned)
                /\ Len(added) <= Dx(arg.bounds) * Dy(arg.bounds)
                /\ 2 * Cardinality(Unmarked(isBackground')) + Len(queue')
                     < 2 * Cardinality(Unmarked(isBackground)) + Len(queue)
         ]_vars
    /\ (pc = "bg_fill") ~> (pc = "bg_fill" /\ queue = << >>)

\* a fill has emptied its queue after marking a pixel off the border
C27_Witness ==
    /\ pc = "bg_fill" /\ queue = << >>
    /\ MarkedInside # {}

\* RemoveBackground is seeding or filling, or has stopped in its seeding
InBackground == pc = "bg_fill" \/ result = "panic: index out of range"

\* C28: at every step of RemoveBackground's seeding and flood fill, every
\* pixel marked in the background mask has the colour of the top-left
\* reference pixel, and every coordinate in the queue lies inside the image
\* (0 <= x < width, 0 <= y < height) and is already marked.
C28_MaskAndQueueSound ==
    InBackground =>
        LET b == arg.bounds
        IN  /\ \A p \in DOMAIN isBackground :
                 isBackground[p] =>
                    colorsEqual(At(arg, p[1] + b.minX, p[2] + b.minY), bgColor)
            /\ \A i \in 1 .. Len(queue) :
                 /\ queue[i][1] >= 0 /\ queue[i][1] < Dx(b)
                 /\ queue[i][2] >= 0 /\ queue[i][2] < Dy(b)
                 /\ isBackground[queue[i]]

\* the non-trimmable pixels of Trim's input that lie inside the kept box
KeptContent == NonTrim \cap Grid(KeptBox)

\* C29: whenever Trim returns a cropped image, each of the four border
\* lines of the kept box (row top, row bottom-1, column left, column
\* right-1) contains at least one pixel that is non-trimmable under the
\* mode and reference colour of that call.
C29_BoxEdgesHaveContent ==
    (AfterTrim /\ Cropped) =>
        /\ \E p \in KeptContent : p[2] = top
        /\ \E p \in KeptContent : p[2] = bottom - 1
        /\ \E p \in KeptContent : p[1] = left
        /\ \E p \in KeptContent : p[1] = right - 1

\* a cropped box of at least two rows and two columns that also holds
\* trimmable pixels, with no single pixel on all four of its border lines
C29_Witness ==
    /\ AfterTrim /\ Cropped
    /\ right - left >= 2 /\ bottom - top >= 2
    /\ Grid(KeptBox) \ NonTrim # {}
    /\ \E p \in KeptContent : p[2] = top
    /\ \E p \in KeptContent : p[1] = right - 1

\* C30: when the alpha of the top-left pixel is strictly between 0 and
\* fully opaque, Trim runs in transparency mode and removes no row from the
\* top and no column from the left (top = minY and left = minX), whatever
\* the other pixels are.
C30_SemiTransparentCornerStays ==
    (AfterTrim /\ At(arg, arg.bounds.minX, arg.bounds.minY)[4] > 0
               /\ At(arg, arg.bounds.minX, arg.bounds.minY)[4] < 65535) =>
        /\ hasTransparency
        /\ top = arg.bounds.minY /\ left = arg.bounds.minX
        /\ (Cropped => img.pix[<<0, 0>>] = ToRGBA(At(arg, arg.bounds.minX, arg.bounds.minY)))

\* a semi-transparent top row and left column were kept while fully
\* transparent rows and columns were cropped from the bottom and the right
C30_Witness ==
    /\ AfterTrim /\ Cropped
    /\ topLeft[4] > 0 /\ topLeft[4] < 65535
    /\ top = arg.bounds.minY /\ left = arg.bounds.minX
    /\ bottom < arg.bounds.maxY /\ right < arg.bounds.maxX
    /\ \A p \in Grid(KeptBox) : (p[1] = left \/ p[2] = top) => arg.pix[p] = topLeft

====
